---------------------------- MODULE Spec2Model ----------------------------
(***************************************************************************)
(* Model of the chunked transfer core of FastXpan                          *)
(* (src/fastxpan/api/fx_file_api.py): FxFileApi.file_upload_multipart and  *)
(* the simple / breakpoint / auto-retry downloads.                         *)
(*                                                                         *)
(* Scaling.  Byte quantities are scaled down so that files can be          *)
(* enumerated: file.read(1024) reads ReadUnit bytes, the tiers' iter_count *)
(* (4096 / 16384 / 32768 read units) are IterStandard / IterPlus /         *)
(* IterPremium read units, and the tiers' max_size is MaxBlocks blocks.    *)
(* The relation part_size = 1024 * iter_count of the source's literals is  *)
(* kept (part_size = ReadUnit * iter_count).  A file of size S holds the   *)
(* bytes <<1, 2, ..., S>>: every byte is identified by its offset, so a    *)
(* dropped, duplicated or misplaced byte is always visible.                *)
(***************************************************************************)
EXTENDS Integers, Sequences, FiniteSets, TLC

(* ------------------------------ bounds -------------------------------- *)
\* bytes returned by one file.read(1024)
ReadUnit == 2
\* iter_count of the three tiers, in read units (source: 4096, 16384, 32768)
IterStandard == 2
IterPlus == 3
IterPremium == 4
\* max_size of a tier, in blocks of that tier (source: 1024, 640, 640)
MaxBlocks == 3

(* ------------------------------ helpers ------------------------------- *)
Min(a, b) == IF a < b THEN a ELSE b

CeilDiv(a, b) == (a + b - 1) \div b

\* the content of a local file / remote object of S bytes
FileOf(S) == [k \in 1..S |-> k]

\* the sequences without repetition over the set X
RECURSIVE Arrangements(_)
Arrangements(X) ==
  {<<>>} \cup UNION {{<<x>> \o t : t \in Arrangements(X \ {x})} : x \in X}

\* str.startswith("/") on a path given as a sequence of characters
StartsWithSlash(p) == Len(p) > 0 /\ p[1] = "/"

(* --------------------- tier lookup (TransferLimits) -------------------- *)
\* lines 644-656 with the literals of the source: part_size in bytes,
\* max_size in KiB (its byte literals, all multiples of 1024, exceed the
\* 32-bit integers of the model checker), iter_count in read units
TierRow_noPremium(user_type) ==
  IF user_type = 1
  THEN [part_size |-> 16777216, max_size_KiB |-> 10485760, iter_count |-> 16384]
  ELSE [part_size |-> 4194304, max_size_KiB |-> 4194304, iter_count |-> 4096]

TierRow(user_type) ==
  IF user_type = 1
  THEN [part_size |-> 16777216, max_size_KiB |-> 10485760, iter_count |-> 16384]
  ELSE IF user_type = 2
  THEN [part_size |-> 33554432, max_size_KiB |-> 20971520, iter_count |-> 32768]
  ELSE [part_size |-> 4194304, max_size_KiB |-> 4194304, iter_count |-> 4096]

\* the iter_count of the row, scaled: 4096, 16384 and 32768 read units become
\* IterStandard, IterPlus and IterPremium
iter_count(user_type) ==
  LET n == TierRow(user_type).iter_count
  IN  IF n = 16384 THEN IterPlus
      ELSE IF n = 32768 THEN IterPremium
      ELSE IterStandard

part_size(user_type) == ReadUnit * iter_count(user_type)

max_size(user_type) == MaxBlocks * part_size(user_type)

(* ------------------------- md5 (idealised) ----------------------------- *)
\* An md5 object is the sequence of bytes fed to it; the digest is
\* collision-free: two digests are equal iff the hashed bytes are equal.
Md5New(data) == data
Md5Update(m, data) == m \o data
Hexdigest(m) == [md5 |-> m]

(* ----------------------------- file reads ------------------------------ *)
\* file.read(n) at offset pos: at most n bytes, fewer at end of file
Read(file, pos, n) == SubSeq(file, pos + 1, Min(pos + n, Len(file)))

\* iter(lambda: file.read(1024), b''): the read units from pos, until b''
RECURSIVE ReadUnits(_, _)
ReadUnits(file, pos) ==
  LET chunk == Read(file, pos, ReadUnit)
  IN  IF chunk = <<>> THEN <<>>
      ELSE <<chunk>> \o ReadUnits(file, pos + Len(chunk))

(* ----------------------- ChunkHasher (lines 671-688) ------------------ *)
\* one iteration of the hashing loop; st = [i, md5, block_list]
HashStep_dropBoundary(st, chunk, n) ==
  IF st.i < n
  THEN [i |-> st.i + 1, md5 |-> Md5Update(st.md5, chunk), block_list |-> st.block_list]
  ELSE [i |-> 1, md5 |-> Md5New(<<>>),
        block_list |-> Append(st.block_list, Hexdigest(st.md5))]

HashStep(st, chunk, n) ==
  IF st.i < n
  THEN [i |-> st.i + 1, md5 |-> Md5Update(st.md5, chunk), block_list |-> st.block_list]
  ELSE [i |-> 1, md5 |-> Md5New(chunk),
        block_list |-> Append(st.block_list, Hexdigest(st.md5))]

\* after the loop: the last, possibly partial, block
HashFinish_noTail(st) == st.block_list

HashFinish(st) ==
  IF st.i # 0 THEN Append(st.block_list, Hexdigest(st.md5)) ELSE st.block_list

RECURSIVE HashLoop(_, _, _, _)
HashLoop(chunks, k, st, n) ==
  IF k > Len(chunks) THEN st
  ELSE HashLoop(chunks, k + 1, HashStep(st, chunks[k], n), n)

BuildBlockList(file, n) ==
  HashFinish(HashLoop(ReadUnits(file, 0), 1,
                      [i |-> 0, md5 |-> Md5New(<<>>), block_list |-> <<>>], n))

\* json.dumps(block_list): the manifest as sent to precreate and finalize
JsonDumps(list) == [json |-> list]

(* ======================= file_upload_multipart ========================= *)
VARIABLES
  u_pc,              \* position in file_upload_multipart
  u_args,            \* the arguments and the local file of the call
  block_list,        \* the manifest (before json.dumps)
  block_list_index,  \* res["block_list"] of precreate
  u_next,            \* position of the for loop in block_list_index
  file_pos,          \* offset of the local file opened at line 704
  upload_file_tmp,   \* the scratch file: its bytes, or NoFile
  calls,             \* the network calls made so far, in order
  u_ret              \* what the call gave back to its caller

u_vars == <<u_pc, u_args, block_list, block_list_index, u_next, file_pos,
            upload_file_tmp, calls, u_ret>>

(* state of the downloads *)
VARIABLES
  fs,        \* the local file system: path -> NoFile, IsDir or File(bytes)
  ss,        \* the download sessions: session -> its call's state
  gets       \* the GET requests issued against direct links, in order

d_vars == <<fs, ss, gets>>

vars == <<u_pc, u_args, block_list, block_list_index, u_next, file_pos,
          upload_file_tmp, calls, u_ret, fs, ss, gets>>

\* an entry of the file system: absent, a directory, or a file and its bytes
NoFile == [kind |-> "none", data |-> <<>>]
IsDir == [kind |-> "dir", data |-> <<>>]
File(data) == [kind |-> "file", data |-> data]

NoRet == [kind |-> "none", suc |-> FALSE, type |-> "none", msg |-> "none", part_seq |-> -1]
\* return suc, msg with msg a str / a response dict (line 726)
Return(suc, msg) == [kind |-> "return", suc |-> suc, type |-> "str", msg |-> msg, part_seq |-> -1]
ReturnDict(suc, msg) == [kind |-> "return", suc |-> suc, type |-> "dict", msg |-> msg, part_seq |-> -1]
\* a message naming a block index (line 728)
ReturnPart(suc, msg, seq) == [kind |-> "return", suc |-> suc, type |-> "str", msg |-> msg, part_seq |-> seq]
\* an exception leaving the public method
Raise(exc) == [kind |-> "raise", suc |-> FALSE, type |-> "exc", msg |-> exc, part_seq |-> -1]

Call(api, seq, data, ok) == [api |-> api, part_seq |-> seq, file |-> data, ok |-> ok]

\* target_dir_path values: the root, a relative path, an absolute path
DirPaths == {<<"/">>, <<"a">>, <<"/", "a">>}

UserTypes == 0..3

\* remote_exists: a file of the target name is in the target directory of
\* the drive when the upload is called
UploadArgs ==
  {[target_dir_path |-> d, user_type |-> t, overwrite |-> o, is_file |-> f, total_size |-> s,
    remote_exists |-> x] :
     d \in DirPaths, t \in UserTypes, o \in BOOLEAN, f \in BOOLEAN,
     s \in 0..(MaxBlocks * ReadUnit * IterPremium + 1), x \in BOOLEAN}

\* lines 640-664: the checks made before any network call; "ok" or the message
Validate_noSizeCheck(a) ==
  IF a.target_dir_path = <<"/">> THEN "root_dir"
  ELSE IF ~StartsWithSlash(a.target_dir_path) THEN "invalid_path"
  ELSE IF ~a.is_file THEN "no_file"
  ELSE IF a.total_size = 0 THEN "empty_file"
  ELSE "ok"

Validate(a) ==
  IF a.target_dir_path = <<"/">> THEN "root_dir"
  ELSE IF ~StartsWithSlash(a.target_dir_path) THEN "invalid_path"
  ELSE IF ~a.is_file THEN "no_file"
  ELSE IF a.total_size = 0 THEN "empty_file"
  ELSE IF a.total_size > max_size(a.user_type) THEN "too_large"
  ELSE "ok"

\* lines 671-688 for the call's file and tier
Manifest(a) == BuildBlockList(FileOf(a.total_size), iter_count(a.user_type))

\* the block index lists precreate may answer for a manifest of n blocks:
\* any arrangement of indices the server still needs
IndexLists(n) == Arrangements(0..(n - 1))

\* line 707: the index the for loop takes at position k of the list
PartSeqAt_ownOrder(list, k) == k - 1

PartSeqAt(list, k) == list[k]

\* lines 708-714: the bytes staged in the scratch file, read sequentially
\* from the current offset of the local file
StagePart(file, pos, n) ==
  LET RECURSIVE Take(_, _, _)
      Take(p, j, acc) ==
        LET chunk == Read(file, p, ReadUnit)
        IN  IF chunk = <<>> THEN acc
            ELSE IF j + 1 >= n THEN acc \o chunk
            ELSE Take(p + Len(chunk), j + 1, acc \o chunk)
  IN  Take(pos, 0, <<>>)

\* line 725: "errno" in res
HasErrno_never(resp) == FALSE

HasErrno(resp) == resp = "errno"

UploadInit ==
  /\ u_pc = "idle"
  /\ u_args \in UploadArgs
  /\ (~u_args.is_file => u_args.total_size = 0)
  /\ u_args.total_size <= max_size(u_args.user_type) + 1
  /\ block_list = <<>>
  /\ block_list_index = <<>>
  /\ u_next = 1
  /\ file_pos = 0
  /\ upload_file_tmp = NoFile
  /\ calls = <<>>
  /\ u_ret = NoRet

\* lines 640-669 up to the existence lookup
UploadCall ==
  /\ u_pc = "idle"
  /\ LET v == Validate(u_args)
     IN  IF v # "ok"
         THEN /\ u_pc' = "returned"
              /\ u_ret' = Return(FALSE, v)
              /\ UNCHANGED block_list
         ELSE IF ~u_args.overwrite
         THEN /\ u_pc' = "lookup"
              /\ UNCHANGED <<u_ret, block_list>>
         ELSE /\ u_pc' = "precreate"
              /\ block_list' = Manifest(u_args)
              /\ UNCHANGED u_ret
  /\ UNCHANGED <<u_args, block_list_index, u_next, file_pos, upload_file_tmp, calls>>
  /\ UNCHANGED d_vars

\* line 668 and get_file_by_path (lines 45-73): one xpanfilelist call
LookupResponses == {"found", "not_found", "errno_known", "errno_unknown",
                    "ApiException", "OtherException"}

UploadLookup ==
  /\ u_pc = "lookup"
  /\ \E r \in LookupResponses :
       \* a listing that is answered tells whether the name is there
       /\ (r = "found" => u_args.remote_exists)
       /\ (r = "not_found" => ~u_args.remote_exists)
       /\ calls' = Append(calls, Call("xpanfilelist", -1, <<>>, r \in {"found", "not_found"}))
       /\ CASE r = "found" ->
                 /\ u_pc' = "returned"
                 /\ u_ret' = Return(FALSE, "exists")
                 /\ UNCHANGED block_list
            [] r = "errno_unknown" ->
                 /\ u_pc' = "raised"
                 /\ u_ret' = Raise("KeyError")
                 /\ UNCHANGED block_list
            [] r = "OtherException" ->
                 /\ u_pc' = "raised"
                 /\ u_ret' = Raise("OtherException")
                 /\ UNCHANGED block_list
            [] OTHER ->
                 /\ u_pc' = "precreate"
                 /\ block_list' = Manifest(u_args)
                 /\ UNCHANGED u_ret
  /\ UNCHANGED <<u_args, block_list_index, u_next, file_pos, upload_file_tmp>>
  /\ UNCHANGED d_vars

\* lines 690-702: precreate
PrecreateResponses == {"ok", "errno_known", "errno_unknown", "ApiException", "OtherException"}

UploadPrecreate ==
  /\ u_pc = "precreate"
  /\ \E r \in PrecreateResponses :
       /\ calls' = Append(calls, Call("xpanfileprecreate", -1, JsonDumps(block_list), r = "ok"))
       /\ CASE r = "ok" ->
                 /\ \E list \in IndexLists(Len(block_list)) : block_list_index' = list
                 /\ u_pc' = "blocks"
                 /\ UNCHANGED u_ret
            [] r = "errno_known" ->
                 /\ u_pc' = "returned"
                 /\ u_ret' = Return(FALSE, "precreate_failed")
                 /\ UNCHANGED block_list_index
            [] r = "ApiException" ->
                 /\ u_pc' = "returned"
                 /\ u_ret' = Return(FALSE, "precreate_failed")
                 /\ UNCHANGED block_list_index
            [] r = "errno_unknown" ->
                 /\ u_pc' = "raised"
                 /\ u_ret' = Raise("KeyError")
                 /\ UNCHANGED block_list_index
            [] OTHER ->
                 /\ u_pc' = "raised"
                 /\ u_ret' = Raise("OtherException")
                 /\ UNCHANGED block_list_index
  /\ UNCHANGED <<u_args, block_list, u_next, file_pos, upload_file_tmp>>
  /\ UNCHANGED d_vars

\* lines 708-715: one iteration of the for loop over block_list_index, up to
\* the scratch file written and closed
UploadStage ==
  /\ u_pc = "blocks"
  /\ u_next <= Len(block_list_index)
  /\ upload_file_tmp = NoFile
  /\ LET staged == StagePart(FileOf(u_args.total_size), file_pos, iter_count(u_args.user_type))
     IN  /\ file_pos' = file_pos + Len(staged)
         /\ upload_file_tmp' = File(staged)
  /\ UNCHANGED <<u_pc, u_args, block_list, block_list_index, u_next, calls, u_ret>>
  /\ UNCHANGED d_vars

\* lines 729-731: finally: upload_part.close(); upload_file_tmp.unlink(),
\* whatever the answer r of the call
AfterPart_noFinally(r, tmp) == IF r = "ok" THEN NoFile ELSE tmp

AfterPart(r, tmp) == NoFile

\* lines 716-731: the rest of the iteration, the block-upload call
PartResponses == {"ok", "errno", "ApiException", "OtherException"}

UploadPart ==
  /\ u_pc = "blocks"
  /\ u_next <= Len(block_list_index)
  /\ upload_file_tmp # NoFile
  /\ LET part_seq == PartSeqAt(block_list_index, u_next)
         staged   == upload_file_tmp.data
     IN  \E r \in PartResponses :
           /\ calls' = Append(calls, Call("pcssuperfile2", part_seq, staged, r = "ok"))
           /\ upload_file_tmp' = AfterPart(r, upload_file_tmp)
           /\ CASE r = "ApiException" ->
                     /\ u_pc' = "returned"
                     /\ u_ret' = ReturnPart(FALSE, "part_failed", part_seq)
                     /\ UNCHANGED u_next
                [] r = "OtherException" ->
                     /\ u_pc' = "raised"
                     /\ u_ret' = Raise("OtherException")
                     /\ UNCHANGED u_next
                [] OTHER ->
                     IF HasErrno(r)
                     THEN /\ u_pc' = "returned"
                          /\ u_ret' = ReturnDict(FALSE, "res")
                          /\ UNCHANGED u_next
                     ELSE /\ u_next' = u_next + 1
                          /\ UNCHANGED <<u_pc, u_ret>>
  /\ UNCHANGED <<u_args, block_list, block_list_index, file_pos>>
  /\ UNCHANGED d_vars

\* lines 733-741: finalize, once the for loop is over
CreateResponses == {"ok", "errno_known", "errno_unknown", "ApiException", "OtherException"}

UploadCreate ==
  /\ u_pc = "blocks"
  /\ u_next > Len(block_list_index)
  /\ \E r \in CreateResponses :
       /\ calls' = Append(calls, Call("xpanfilecreate", -1, JsonDumps(block_list), r = "ok"))
       /\ CASE r = "ok" ->
                 /\ u_pc' = "returned"
                 /\ u_ret' = Return(TRUE, "success")
            [] r = "errno_known" ->
                 /\ u_pc' = "returned"
                 /\ u_ret' = Return(FALSE, "fxerr")
            [] r = "ApiException" ->
                 /\ u_pc' = "returned"
                 /\ u_ret' = Return(FALSE, "create_failed")
            [] r = "errno_unknown" ->
                 /\ u_pc' = "raised"
                 /\ u_ret' = Raise("KeyError")
            [] OTHER ->
                 /\ u_pc' = "raised"
                 /\ u_ret' = Raise("OtherException")
  /\ UNCHANGED <<u_args, block_list, block_list_index, u_next, file_pos, upload_file_tmp>>
  /\ UNCHANGED d_vars

UploadNext ==
  \/ UploadCall
  \/ UploadLookup
  \/ UploadPrecreate
  \/ UploadStage
  \/ UploadPart
  \/ UploadCreate



(* -------------------- properties of the upload path -------------------- *)
\* the manifest has been built (lines 671-688 have run)
Hashed == u_pc \in {"precreate", "blocks"} \/ \E k \in 1..Len(calls) : calls[k].api = "xpanfileprecreate"

PrecreateCalls == SelectSeq(calls, LAMBDA c : c.api = "xpanfileprecreate")
PartCalls == SelectSeq(calls, LAMBDA c : c.api = "pcssuperfile2")
CreateCalls == SelectSeq(calls, LAMBDA c : c.api = "xpanfilecreate")
PartTags == [k \in 1..Len(PartCalls) |-> PartCalls[k].part_seq]

\* C1: for a non-empty file of size S and block size B = ReadUnit * iter_count,
\* the manifest has exactly ceil(S / B) entries, also when S is a multiple of B.
C1_ManifestLength ==
  Hashed => Len(block_list) = CeilDiv(u_args.total_size, part_size(u_args.user_type))

C1_Witness ==
  /\ Hashed
  /\ u_args.total_size = 2 * part_size(u_args.user_type)
  /\ Len(block_list) = 2

\* C2: entry k of the manifest is the hash of exactly the bytes
\* [k*B, min((k+1)*B, S)) of the file, in byte-offset order: no read unit is
\* dropped or hashed twice at a block boundary.
C2_ManifestContent ==
  Hashed =>
    LET B == part_size(u_args.user_type)
        S == u_args.total_size
    IN  \A k \in 1..Len(block_list) :
          /\ (k - 1) * B < S
          /\ Len(block_list) * B >= S
          /\ block_list[k] = Hexdigest(SubSeq(FileOf(S), (k - 1) * B + 1, Min(k * B, S)))

C2_Witness ==
  /\ Hashed
  /\ Len(block_list) = 3
  /\ u_args.total_size % ReadUnit # 0
  /\ Len(block_list[3].md5) < part_size(u_args.user_type)

\* C3: an empty local file and a local file larger than the tier's max_size are
\* refused with a failure result before any network call, whatever the tier and
\* whatever overwrite.
C3_RefusedBeforeNetwork ==
  (/\ u_pc # "idle"
   /\ u_args.is_file
   /\ (u_args.total_size = 0 \/ u_args.total_size > max_size(u_args.user_type)))
  => (u_pc = "returned" /\ u_ret.kind = "return" /\ ~u_ret.suc /\ calls = <<>>)

C3_Witness ==
  /\ u_pc = "returned"
  /\ u_ret.msg = "too_large"
  /\ ~u_args.overwrite
  /\ u_args.total_size = max_size(u_args.user_type) + 1
  /\ calls = <<>>

\* C4: the block-upload calls are tagged with the elements of the block index
\* list the server returned, in the order returned.
C4_ServerOrder ==
  /\ Len(PartTags) <= Len(block_list_index)
  /\ PartTags = SubSeq(block_list_index, 1, Len(PartTags))
  /\ (Len(CreateCalls) > 0 => PartTags = block_list_index)

C4_Witness ==
  /\ block_list_index = <<2, 0, 1>>
  /\ PartTags = <<2, 0, 1>>

\* C5: a run that returns success made exactly one precreate call, one block
\* upload per element of the returned list, all of them successful, and one
\* finalize call, made after all of them.
C5_SuccessCallCounts ==
  (u_pc = "returned" /\ u_ret.suc) =>
    /\ Len(PrecreateCalls) = 1
    /\ Len(PartCalls) = Len(block_list_index)
    /\ PartTags = block_list_index
    /\ \A k \in 1..Len(PartCalls) : PartCalls[k].ok
    /\ Len(CreateCalls) = 1
    /\ calls[Len(calls)].api = "xpanfilecreate"
    /\ \E k \in 1..Len(calls) :
         /\ calls[k].api = "xpanfileprecreate"
         /\ \A j \in (k + 1)..(Len(calls) - 1) : calls[j].api = "pcssuperfile2"
         /\ Len(calls) = k + Len(block_list_index) + 1

C5_Witness ==
  /\ u_pc = "returned"
  /\ u_ret.suc
  /\ Len(block_list_index) = 3
  /\ Len(PartCalls) = 3


(* ============================= downloads =============================== *)
\* bytes of one res.iter_content(1024) chunk
ChunkSize == 1
\* size of the remote object behind the direct link
ObjectSize == 3
\* largest max_retry a caller passes
MaxRetry == 2

Sessions == {1, 2}

\* the remote object, and an older file left at a destination
RemoteObject == FileOf(ObjectSize)
OldFile == File(<<0>>)

IsFile(f, p) == f[p].kind = "file"
Exists(f, p) == f[p].kind # "none"

(* paths are sequences of characters *)
Dir == <<"D">>
RemoteName == <<"r">>
GivenName == <<"n">>
\* the marker of an omitted local_file_name (the default ...)
Ellipsis == <<"...">>

\* Path(local_dir_path) / name
Join(dir, name) == IF name = <<>> THEN dir ELSE dir \o <<"/">> \o name

\* Path.parent: the path up to its last "/", or "." (always there)
Dot == <<".">>
RECURSIVE LastSlash(_, _)
LastSlash(p, k) == IF k = 0 THEN 0 ELSE IF p[k] = "/" THEN k ELSE LastSlash(p, k - 1)
Parent(p) == IF LastSlash(p, Len(p)) = 0 THEN Dot ELSE SubSeq(p, 1, LastSlash(p, Len(p)) - 1)

\* local_file_path + "_fxtmp" (lines 749, 807, 833)
Suffix == <<"_", "f", "x", "t", "m", "p">>
TmpPath(p) == p \o Suffix
\* str(path)[:-6] (lines 768, 819, 856)
RenameTarget(tmp) == SubSeq(tmp, 1, Len(tmp) - 6)

Dests == {Join(Dir, RemoteName), Join(Dir, GivenName), Join(Dir, <<>>)}
Paths == {Dot, Dir} \cup Dests \cup {TmpPath(p) : p \in Dests}

\* lines 931, 941-942, 948-949: the name the download saves under.
\* "not local_file_name" is true only of the empty string.
SaveName(local_file_name, download_file_name) ==
  IF local_file_name = <<>> THEN local_file_name ELSE download_file_name

DownloadArgs ==
  [variant : {"simple", "breakpoint", "auto_retry"},
   method : 0..2,                      \* by dlink, by fs_id, by path
   overwrite : BOOLEAN,
   max_retry : 0..MaxRetry,
   dlink_ok : BOOLEAN,                 \* the link starts with https://d.pcs.baidu.com/file/
   local_file_name : {Ellipsis, <<>>, GivenName},
   name_lookup : BOOLEAN,              \* get_file_name_by_dlink / _by_fsid succeeds
   link_lookup : BOOLEAN]              \* get_file_fsid_by_path / get_file_dlink_by_fsid succeed

NoArgs == [variant |-> "simple", method |-> 0, overwrite |-> FALSE, max_retry |-> 0,
           dlink_ok |-> FALSE, local_file_name |-> Ellipsis, name_lookup |-> FALSE,
           link_lookup |-> FALSE]

NoRange == -1

IdleSession ==
  [pc |-> "idle", args |-> NoArgs, local_file_path |-> <<>>, range |-> NoRange,
   first_byte |-> 0, i |-> 0, status |-> 0, body |-> <<>>, total_size |-> 0,
   err |-> NoRet, ret |-> NoRet,
   \* for the properties: the file system as the call found it, the bytes
   \* the call wrote to the temporary file, and whether the error_code of
   \* the last answer is a key of fxerr ("none": no error answer)
   fs_at_call |-> [p \in Paths |-> NoFile],
   written |-> <<>>,
   error_code |-> "none",
   \* the file object of lines 762, 813, 850 while it is open: the path that
   \* names the file it writes (<<>>: closed, or its file has no name any
   \* more) and its position (-1: mode "ab", every write goes to the end)
   handle |-> <<>>,
   offset |-> -1,
   \* for the properties: what the temporary file held when this call
   \* renamed it
   renamed |-> <<>>]

\* the files a directory may hold when a download is called: nothing or an old
\* file at each destination, and at the remote name's temporary path nothing
\* or the first N bytes of the object left by an earlier breakpoint download
InitialFs ==
  {[p \in Paths |->
      IF p = Dot THEN IsDir
      ELSE IF p = Dir THEN d
      ELSE IF d = NoFile /\ Parent(p) = Dir THEN NoFile
      ELSE IF p = Join(Dir, RemoteName) THEN r
      ELSE IF p = Join(Dir, GivenName) THEN g
      ELSE IF p = TmpPath(Join(Dir, RemoteName)) THEN t
      ELSE NoFile] :
     d \in {IsDir, NoFile}, r \in {NoFile, OldFile}, g \in {NoFile, OldFile},
     t \in {NoFile} \cup {File(SubSeq(RemoteObject, 1, n)) : n \in 0..ObjectSize}}

DownloadInit ==
  /\ fs \in InitialFs
  /\ ss = [s \in Sessions |-> IdleSession]
  /\ gets = <<>>


\* the tuples returned by the private helpers: [ret |-> the tuple, fs |-> the
\* file system they leave]

\* __file_download_check (lines 865-885)
FileDownloadCheck_unlinkAlways(f, p, overwrite, what, a) ==
  IF ~Exists(f, Parent(p)) THEN [ret |-> <<FALSE, "bad_save_path">>, fs |-> f]
  ELSE LET f2 == IF IsFile(f, p) THEN [f EXCEPT ![p] = NoFile] ELSE f
       IN  IF IsFile(f, p) /\ ~overwrite THEN [ret |-> <<FALSE, "exists">>, fs |-> f2]
           ELSE IF what \in {1, 2} /\ ~a.link_lookup
           THEN [ret |-> <<FALSE, "lookup_failed">>, fs |-> f2]
           ELSE [ret |-> <<TRUE, "dlink">>, fs |-> f2]

FileDownloadCheck(f, p, overwrite, what, a) ==
  IF ~Exists(f, Parent(p)) THEN [ret |-> <<FALSE, "bad_save_path">>, fs |-> f]
  ELSE IF IsFile(f, p) /\ ~overwrite THEN [ret |-> <<FALSE, "exists">>, fs |-> f]
  ELSE LET f2 == IF IsFile(f, p) THEN [f EXCEPT ![p] = NoFile] ELSE f
       IN  IF what \in {1, 2} /\ ~a.link_lookup
           THEN [ret |-> <<FALSE, "lookup_failed">>, fs |-> f2]
           ELSE [ret |-> <<TRUE, "dlink">>, fs |-> f2]

\* __download_method (lines 926-953): a 2-tuple on failure, a 3-tuple on success
DownloadMethod(f, a) ==
  LET name_ok == IF a.method = 0 THEN a.dlink_ok /\ a.name_lookup
                 ELSE IF a.method = 1 THEN a.name_lookup
                 ELSE TRUE
      path == Join(Dir, SaveName(a.local_file_name, RemoteName))
      chk  == FileDownloadCheck(f, path, a.overwrite, a.method, a)
  IN  IF ~name_ok THEN [ret |-> <<FALSE, "name_failed">>, fs |-> f, path |-> path]
      ELSE IF ~chk.ret[1] THEN [ret |-> chk.ret, fs |-> chk.fs, path |-> path]
      ELSE [ret |-> <<TRUE, chk.ret[2], path>>, fs |-> chk.fs, path |-> path]

\* "suc, data, local_file_path = ..." (lines 974, 999, 1024, 1051, 1081, 1111):
\* unpacking a tuple that has not exactly three elements raises ValueError
UnpackThree(t) == Len(t) = 3

\* the exception classes the environment raises in requests.get, in
\* res.iter_content and in file.write; only ApiException is named by the
\* except clauses of lines 770, 821 and 858
ExcClasses == {"ApiException", "RequestException"}

\* the answers of the server to a GET with Range: bytes=rg- (NoRange: none):
\* 200 with the whole object, 206 with the rest of it, or an error status
\* whose error_code is or is not a key of fxerr
Responses(rg) ==
  {[status |-> 200, body |-> RemoteObject, known |-> TRUE]}
  \cup (IF rg # NoRange /\ rg < ObjectSize
        THEN {[status |-> 206, body |-> SubSeq(RemoteObject, rg + 1, ObjectSize), known |-> TRUE]}
        ELSE {})
  \cup {[status |-> 403, body |-> <<>>, known |-> k] : k \in BOOLEAN}

\* lines 779-782, 836-839: the size of the temporary file, 0 if absent
FirstByte(f, tmp) == IF IsFile(f, tmp) THEN Len(f[tmp].data) ELSE 0

\* lines 783-784, 840-841: the Range header after the measurement, given the
\* header the dict held before
RangeHeader_offByOne(before, first_byte) ==
  IF first_byte # 0 THEN first_byte + 1 ELSE before

RangeHeader(before, first_byte) ==
  IF first_byte # 0 THEN first_byte ELSE before

\* open(local_file_path, "ab" if first_byte else "wb")
OpenTmp_alwaysWb(f, tmp, first_byte) == [f EXCEPT ![tmp] = File(<<>>)]

OpenTmp(f, tmp, first_byte) ==
  IF first_byte # 0 /\ IsFile(f, tmp) THEN f ELSE [f EXCEPT ![tmp] = File(<<>>)]

Upd(s, rec) == ss' = [ss EXCEPT ![s] = rec]

\* the end of a "with open(...)" block
Close(rec) == [rec EXCEPT !.handle = <<>>, !.offset = -1]

\* the open files of the sessions after the file named from was renamed to
\* to (<<>>: unlinked): a file object keeps writing the file it opened
Retarget(sess, from, to) ==
  [t \in Sessions |->
     IF sess[t].handle = from /\ from # <<>> THEN [sess[t] EXCEPT !.handle = to]
     ELSE IF sess[t].handle = to /\ to # <<>> THEN [sess[t] EXCEPT !.handle = <<>>]
     ELSE sess[t]]

\* file.write(chunk) at position offset of a file holding had
Write(had, offset, chunk) ==
  IF offset = -1 THEN had \o chunk
  ELSE LET head == IF offset <= Len(had) THEN SubSeq(had, 1, offset)
                   ELSE had \o [k \in 1..(offset - Len(had)) |-> 0]
       IN  head \o chunk \o SubSeq(had, offset + Len(chunk) + 1, Len(had))

\* for i in range(max_retry): the next iteration, or line 863 after the loop
NextAttempt_oneMore(rec, i, err) ==
  IF i <= rec.args.max_retry
  THEN [Close(rec) EXCEPT !.pc = "attempt", !.i = i, !.err = err]
  ELSE [Close(rec) EXCEPT !.pc = "returned", !.i = i, !.err = err,
                          !.ret = IF err = NoRet THEN Return(FALSE, "Error") ELSE err]

NextAttempt(rec, i, err) ==
  IF i < rec.args.max_retry
  THEN [Close(rec) EXCEPT !.pc = "attempt", !.i = i, !.err = err]
  ELSE [Close(rec) EXCEPT !.pc = "returned", !.i = i, !.err = err,
                          !.ret = IF err = NoRet THEN Return(FALSE, "Error") ELSE err]

\* the public download methods up to the private per-variant method
\* (lines 955-1118), with __download_method and __file_download_check
CallWith(s, Args) ==
  /\ ss[s].pc = "idle"
  /\ \E a \in Args :
       /\ (a.variant # "auto_retry" => a.max_retry = MaxRetry)
       /\ LET r   == DownloadMethod(fs, a)
              rec == [ss[s] EXCEPT !.args = a, !.local_file_path = r.path,
                                   !.fs_at_call = fs]
              \* a destination unlinked at line 872 is no longer the file of
              \* any file object
              gone == IF r.fs[r.path] # fs[r.path] THEN r.path ELSE <<>>
              new == IF ~UnpackThree(r.ret)
                     THEN [rec EXCEPT !.pc = "raised", !.ret = Raise("ValueError")]
                     ELSE IF ~r.ret[1]
                     THEN [rec EXCEPT !.pc = "returned", !.ret = Return(FALSE, r.ret[2])]
                     ELSE IF a.variant = "auto_retry"
                     THEN NextAttempt(rec, 0, NoRet)
                     ELSE IF ~a.dlink_ok
                     THEN [rec EXCEPT !.pc = "returned", !.ret = Return(FALSE, "invalid_dlink")]
                     ELSE [rec EXCEPT !.pc = "attempt"]
          IN  /\ fs' = r.fs
              /\ ss' = [Retarget(ss, gone, <<>>) EXCEPT ![s] = new]
  /\ UNCHANGED gets
  /\ UNCHANGED u_vars

DownloadCall(s) == CallWith(s, DownloadArgs)

Get(s, rg, first_byte) == [session |-> s, range |-> rg, tmp_size |-> first_byte]

\* lines 779-784, 836-841: the session once the temporary file is measured
\* and the Range header set (the simple variant does neither)
Sent(v, rec, f) ==
  LET tmp == TmpPath(rec.local_file_path)
      fb  == IF v = "simple" THEN 0 ELSE FirstByte(f, tmp)
      rg  == IF v = "simple" THEN NoRange
             ELSE IF v = "breakpoint" THEN RangeHeader(NoRange, fb)
             ELSE RangeHeader(rec.range, fb)
  IN  [rec EXCEPT !.first_byte = fb, !.range = rg, !.status = 0,
                  !.body = <<>>, !.total_size = 0, !.error_code = "none"]

\* what requests.get does: it raises an exception or the server answers
RequestEnv(rg) ==
  {[kind |-> "exc", exc |-> c, res |-> [status |-> 0, body |-> <<>>, known |-> TRUE]] :
     c \in ExcClasses}
  \cup {[kind |-> "res", exc |-> "none", res |-> r] : r \in Responses(rg)}

\* requests.get raises c: line 750 is outside any try, __breakpoint_init
\* catches every Exception (lines 786-787), line 858 catches ApiException
RequestError(v, sent, c) ==
  IF v = "breakpoint"
  THEN [sent EXCEPT !.pc = "returned", !.ret = ReturnPart(FALSE, c, sent.i)]
  ELSE IF v = "auto_retry" /\ c = "ApiException"
  THEN NextAttempt(sent, sent.i + 1, ReturnPart(FALSE, c, sent.i))
  ELSE [sent EXCEPT !.pc = "raised", !.ret = Raise(c)]

\* an error status: lines 751-759, 788-798, 843-847
StatusError_retried(v, sent, res) ==
  IF res.known
  THEN IF v = "auto_retry"
       THEN [NextAttempt(sent, sent.i + 1, Return(FALSE, "fxerr"))
               EXCEPT !.status = res.status, !.error_code = "known"]
       ELSE [sent EXCEPT !.pc = "returned", !.status = res.status, !.error_code = "known",
                         !.ret = Return(FALSE, "fxerr")]
  ELSE IF v = "auto_retry"
  THEN [sent EXCEPT !.pc = "raised", !.status = res.status, !.error_code = "unknown",
                    !.ret = Raise("KeyError")]
  ELSE [sent EXCEPT !.pc = "returned", !.status = res.status, !.error_code = "unknown",
                    !.ret = Return(FALSE, "error_msg")]

StatusError(v, sent, res) ==
  IF res.known
  THEN [sent EXCEPT !.pc = "returned", !.status = res.status, !.error_code = "known",
                    !.ret = Return(FALSE, "fxerr")]
  ELSE IF v = "auto_retry"
  THEN [sent EXCEPT !.pc = "raised", !.status = res.status, !.error_code = "unknown",
                    !.ret = Raise("KeyError")]
  ELSE [sent EXCEPT !.pc = "returned", !.status = res.status, !.error_code = "unknown",
                    !.ret = Return(FALSE, "error_msg")]

\* the session and the file system after one GET of variant v, given what
\* requests.get did
RequestOutcome(v, sent, f, e) ==
  LET tmp == TmpPath(sent.local_file_path)
  IN  IF e.kind = "exc"
      THEN [rec |-> RequestError(v, sent, e.exc), fs |-> f]
      ELSE IF (v = "simple" /\ e.res.status # 200) \/ e.res.status \notin {200, 206}
      THEN [rec |-> StatusError(v, sent, e.res), fs |-> f]
      ELSE [rec |-> [sent EXCEPT !.pc = "streaming", !.status = e.res.status,
                                 !.body = e.res.body, !.total_size = Len(e.res.body),
                                 !.handle = tmp,
                                 !.offset = IF sent.first_byte # 0 THEN -1 ELSE 0],
            fs |-> OpenTmp(f, tmp, sent.first_byte)]

\* one GET: line 750 (simple), __breakpoint_init (lines 778-799), lines 836-848
DownloadRequest(s) ==
  /\ ss[s].pc = "attempt"
  /\ LET sent == Sent(ss[s].args.variant, ss[s], fs)
     IN  /\ gets' = Append(gets, Get(s, sent.range, FirstByte(fs, TmpPath(ss[s].local_file_path))))
         /\ \E e \in RequestEnv(sent.range) :
              LET o == RequestOutcome(ss[s].args.variant, sent, fs, e)
              IN  /\ fs' = o.fs
                  /\ Upd(s, o.rec)
  /\ UNCHANGED u_vars

\* one iteration of "for chunk in res.iter_content(1024): file.write(chunk)"
DownloadChunk(s) ==
  /\ ss[s].pc = "streaming"
  /\ ss[s].body # <<>>
  /\ LET rec   == ss[s]
         n     == Min(ChunkSize, Len(rec.body))
         chunk == SubSeq(rec.body, 1, n)
     IN  /\ IF rec.handle = <<>>
            THEN UNCHANGED fs
            ELSE fs' = [fs EXCEPT ![rec.handle] =
                          File(Write(fs[rec.handle].data, rec.offset, chunk))]
         /\ Upd(s, [rec EXCEPT !.body = SubSeq(rec.body, n + 1, Len(rec.body)),
                                !.written = rec.written \o chunk,
                                !.offset = IF rec.offset = -1 THEN -1 ELSE rec.offset + n])
  /\ UNCHANGED gets
  /\ UNCHANGED u_vars

\* Path.rename (lines 768, 819, 856)
Rename_copy(f, from, to) == [f EXCEPT ![to] = f[from]]

Rename(f, from, to) == [f EXCEPT ![to] = f[from], ![from] = NoFile]

\* the body is over: rename the temporary file and report success
\* (lines 768-769, 819-820, 856-857)
Finish(s) ==
  LET rec    == Close(ss[s])
      tmp    == TmpPath(rec.local_file_path)
      target == RenameTarget(tmp)
  IN  IF ~IsFile(fs, tmp) \/ fs[target] = IsDir
      THEN /\ UNCHANGED fs
           /\ Upd(s, [rec EXCEPT !.pc = "raised", !.ret = Raise("OSError")])
      ELSE /\ fs' = Rename(fs, tmp, target)
           /\ ss' = [Retarget([ss EXCEPT ![s] = rec], tmp, target)
                       EXCEPT ![s] = [rec EXCEPT !.pc = "returned", !.ret = Return(TRUE, "done"),
                                            !.renamed = fs[tmp].data]]

DownloadEnd(s) ==
  /\ ss[s].pc = "streaming"
  /\ ss[s].body = <<>>
  /\ Finish(s)
  /\ UNCHANGED gets
  /\ UNCHANGED u_vars

\* the connection closes early and iter_content ends without raising
DownloadShortEnd(s) ==
  /\ ss[s].pc = "streaming"
  /\ ss[s].body # <<>>
  /\ Finish(s)
  /\ UNCHANGED gets
  /\ UNCHANGED u_vars

\* an exception while streaming (lines 770-775, 821-825, 858-862)
\* the handlers of ApiException: line 774 unlinks the temporary file of the
\* simple download; lines 821-825 and 858-862 leave it
ErrorCleanup_always(v) == TRUE

ErrorCleanup(v) == v = "simple"

DownloadStreamError(s) ==
  /\ ss[s].pc = "streaming"
  /\ ss[s].body # <<>>
  /\ LET rec == Close(ss[s])
         v   == rec.args.variant
         tmp == TmpPath(rec.local_file_path)
     IN  \E c \in ExcClasses :
           IF c # "ApiException"
           THEN /\ UNCHANGED fs
                /\ Upd(s, [rec EXCEPT !.pc = "raised", !.ret = Raise(c)])
           ELSE LET new == IF v = "auto_retry"
                           THEN NextAttempt(rec, rec.i + 1, ReturnPart(FALSE, c, rec.i))
                           ELSE [rec EXCEPT !.pc = "returned",
                                            !.ret = ReturnPart(FALSE, c, rec.i)]
                IN  IF ErrorCleanup(v)
                    THEN /\ fs' = [fs EXCEPT ![tmp] = NoFile]
                         /\ ss' = [Retarget(ss, tmp, <<>>) EXCEPT ![s] = new]
                    ELSE /\ UNCHANGED fs
                         /\ Upd(s, new)
  /\ UNCHANGED gets
  /\ UNCHANGED u_vars

DownloadNext(s) ==
  \/ DownloadCall(s)
  \/ DownloadRequest(s)
  \/ DownloadChunk(s)
  \/ DownloadEnd(s)
  \/ DownloadShortEnd(s)
  \/ DownloadStreamError(s)

(* --------------------------- specifications ---------------------------- *)
UploadIdle ==
  /\ u_pc = "idle"
  /\ u_args = [target_dir_path |-> <<"/">>, user_type |-> 0, overwrite |-> FALSE,
               is_file |-> FALSE, total_size |-> 0, remote_exists |-> FALSE]
  /\ block_list = <<>>
  /\ block_list_index = <<>>
  /\ u_next = 1
  /\ file_pos = 0
  /\ upload_file_tmp = NoFile
  /\ calls = <<>>
  /\ u_ret = NoRet

DownloadIdle ==
  /\ fs = [p \in Paths |-> IF p = Dot THEN IsDir ELSE NoFile]
  /\ ss = [s \in Sessions |-> IdleSession]
  /\ gets = <<>>

\* one call of file_upload_multipart
InitUpload == UploadInit /\ DownloadIdle

SpecUpload == InitUpload /\ [][UploadNext]_vars

\* one call of a download method (the callers serialize their downloads)
Serial == {1}

SerialNext == \E s \in Serial : DownloadNext(s)

InitDownload == DownloadInit /\ UploadIdle

SpecDownload == InitDownload /\ [][SerialNext]_vars

\* two breakpoint downloads of the same link to the same destination, called
\* from two threads: the steps of the two calls interleave (the auto-retry
\* variant with a single attempt)
ConcurrentArgs ==
  {a \in DownloadArgs :
     /\ a.variant \in {"breakpoint", "auto_retry"}
     /\ a.method = 0
     /\ a.dlink_ok
     /\ a.name_lookup
     /\ ~a.link_lookup
     /\ a.overwrite
     /\ a.local_file_name = Ellipsis
     /\ a.max_retry = IF a.variant = "auto_retry" THEN 1 ELSE MaxRetry}

ConcurrentCall(s) == CallWith(s, ConcurrentArgs)

ConcurrentStep(s) ==
  \/ ConcurrentCall(s)
  \/ DownloadRequest(s)
  \/ DownloadChunk(s)
  \/ DownloadEnd(s)
  \/ DownloadShortEnd(s)
  \/ DownloadStreamError(s)

ConcurrentNext == \E s \in Sessions : ConcurrentStep(s)

InitConcurrent ==
  /\ fs = [p \in Paths |-> IF p \in {Dot, Dir} THEN IsDir ELSE NoFile]
  /\ ss = [s \in Sessions |-> IdleSession]
  /\ gets = <<>>
  /\ UploadIdle

SpecConcurrent == InitConcurrent /\ [][ConcurrentNext]_vars

\* one call of the auto-retry download run to its end: the method runs in
\* the calling thread, and each of its steps (a GET with timeout=30, a chunk
\* read, the rename) ends
AutoRetryArgs == {a \in DownloadArgs : a.variant = "auto_retry"}

RetryCall(s) == CallWith(s, AutoRetryArgs)

RetryStep(s) ==
  \/ RetryCall(s)
  \/ DownloadRequest(s)
  \/ DownloadChunk(s)
  \/ DownloadEnd(s)
  \/ DownloadShortEnd(s)
  \/ DownloadStreamError(s)

RetryNext == \E s \in Serial : RetryStep(s)

FairDownload == InitDownload /\ [][RetryNext]_vars /\ WF_vars(RetryNext)


(* ------------------- properties of the download path ------------------- *)
Breakpoint(s) == ss[s].args.variant \in {"breakpoint", "auto_retry"}

\* the destination the call resolved, and whether it held a file at the call
Dest(s) == ss[s].local_file_path
DestExisted(s) == ss[s].pc # "idle" /\ IsFile(ss[s].fs_at_call, Dest(s))

\* the name and link lookups made before __file_download_check succeeded
NameResolved(s) ==
  IF ss[s].args.method = 0 THEN ss[s].args.dlink_ok /\ ss[s].args.name_lookup
  ELSE IF ss[s].args.method = 1 THEN ss[s].args.name_lookup
  ELSE TRUE

\* C6: in both breakpoint variants, a GET issued while the temporary file holds
\* N > 0 bytes carries Range: bytes=N-, and a GET issued while it is absent or
\* empty carries no Range header.
C6_RangeHeader ==
  \A k \in 1..Len(gets) :
    Breakpoint(gets[k].session) =>
      gets[k].range = IF gets[k].tmp_size > 0 THEN gets[k].tmp_size ELSE NoRange

C6_Witness ==
  /\ Len(gets) = 2
  /\ ss[1].args.variant = "auto_retry"
  /\ gets[1].range = NoRange
  /\ gets[2].tmp_size = 2
  /\ gets[2].range = 2

\* C7: a breakpoint download that resumed from N > 0 bytes and reports success
\* leaves a destination of N + Content-Length bytes that is byte-identical to
\* the remote object, for status 200 as for status 206.  (Stated for bodies
\* delivered in full; a body cut short is another matter.)
C7_ResumeByteIdentical ==
  \A s \in Sessions :
    (/\ Breakpoint(s)
     /\ ss[s].pc = "returned"
     /\ ss[s].ret.suc
     /\ ss[s].first_byte > 0
     /\ ss[s].body = <<>>)
    => /\ Len(fs[Dest(s)].data) = ss[s].first_byte + ss[s].total_size
       /\ fs[Dest(s)].data = RemoteObject

\* C8: in the auto-retry download a transport error in attempt k, after bytes
\* were written, is followed by attempt k+1 while attempts remain: the call
\* never ends with the transport error while fewer than max_retry attempts
\* were made.
C8_RetryAfterTransportError ==
  \A s \in Sessions :
    (/\ ss[s].args.variant = "auto_retry"
     /\ ss[s].pc = "raised"
     /\ ss[s].ret.msg = "RequestException"
     /\ Len(ss[s].body) < ss[s].total_size)
    => ss[s].i + 1 >= ss[s].args.max_retry

\* C9: a download called with overwrite = false while the destination file
\* exists returns (False, "file already exists").
C9_ExistsReturned ==
  \A s \in Sessions :
    (DestExisted(s) /\ ~ss[s].args.overwrite /\ NameResolved(s))
    => (ss[s].pc = "returned" /\ ss[s].ret = Return(FALSE, "exists"))

\* C10: a download called with overwrite = false while the destination file
\* exists leaves the destination as it was, creates no temporary file and
\* issues no GET against the direct link.
C10_ExistingDestUntouched ==
  \A s \in Sessions :
    (DestExisted(s) /\ ~ss[s].args.overwrite)
    => /\ fs[Dest(s)] = ss[s].fs_at_call[Dest(s)]
       /\ fs[TmpPath(Dest(s))] = ss[s].fs_at_call[TmpPath(Dest(s))]
       /\ fs = ss[s].fs_at_call
       /\ \A k \in 1..Len(gets) : gets[k].session # s

C10_Witness ==
  /\ DestExisted(1)
  /\ ~ss[1].args.overwrite
  /\ NameResolved(1)
  /\ ss[1].pc # "idle"
  /\ fs[Dest(1)] = OldFile
  /\ fs[TmpPath(Dest(1))] = File(SubSeq(RemoteObject, 1, 1))
  /\ gets = <<>>

\* the call of session s is over without success
Failed(s) == ss[s].pc \in {"returned", "raised"} /\ ~ss[s].ret.suc
\* the number of GETs session s issued
GetsOf(s) == Cardinality({k \in 1..Len(gets) : gets[k].session = s})
\* the content of the temporary file of session s when the call was made
Prior(s) ==
  IF IsFile(ss[s].fs_at_call, TmpPath(Dest(s)))
  THEN ss[s].fs_at_call[TmpPath(Dest(s))].data
  ELSE <<>>

\* C11: every expected failure of a download (a validation failure, a provider
\* error status, a transport error during the request or while streaming) is
\* returned as (False, message): no public method ends with a ValueError, a
\* KeyError or a transport exception raised to the caller.
C11_FailuresReturned ==
  \A s \in Sessions :
    ss[s].pc = "raised" => ss[s].ret.msg \notin {"ValueError", "KeyError", "RequestException"}

\* C12: in the auto-retry download, when every one of the max_retry >= 1
\* attempts failed, the call returns (False, e) where e is the error of the
\* last attempt (attempt max_retry - 1), never a raised exception, an earlier
\* error or the placeholder "Error".
C12_LastErrorReturned ==
  \A s \in Sessions :
    (/\ ss[s].args.variant = "auto_retry"
     /\ Failed(s)
     /\ ss[s].args.max_retry >= 1
     /\ GetsOf(s) = ss[s].args.max_retry
     /\ ss[s].ret.msg # "OSError")
    => /\ ss[s].pc = "returned"
       /\ ss[s].ret \in {ReturnPart(FALSE, c, ss[s].args.max_retry - 1) : c \in ExcClasses}
                        \cup {Return(FALSE, "fxerr"), Return(FALSE, "error_msg")}

\* C13: whenever a breakpoint download, with or without auto-retry, ends in
\* failure after it wrote bytes, the temporary file <destination>_fxtmp still
\* exists and holds what it held at the call followed by every byte written,
\* so the next call measures that size.
C13_TmpRetained ==
  \A s \in Sessions :
    (Breakpoint(s) /\ Failed(s) /\ ss[s].written # <<>>)
    => /\ IsFile(fs, TmpPath(Dest(s)))
       /\ fs[TmpPath(Dest(s))].data = Prior(s) \o ss[s].written
       /\ FirstByte(fs, TmpPath(Dest(s))) = Len(Prior(s)) + Len(ss[s].written)

C13_Witness ==
  /\ ss[1].args.variant = "auto_retry"
  /\ ss[1].pc = "returned"
  /\ ~ss[1].ret.suc
  /\ Len(ss[1].written) = 2
  /\ GetsOf(1) = 2
  /\ Prior(1) = <<>>

\* C14: in the simple download any exception raised while streaming ends the
\* call with the error reported as (False, e) and the temporary file deleted.
C14_SimpleTmpDeleted ==
  \A s \in Sessions :
    (/\ ss[s].args.variant = "simple"
     /\ Failed(s)
     /\ ss[s].status = 200
     /\ ss[s].ret.msg \in ExcClasses)
    => /\ ss[s].pc = "returned"
       /\ ~Exists(fs, TmpPath(Dest(s)))

\* C15: whenever a simple or breakpoint download returns success, the
\* temporary file no longer exists and the destination, the temporary path
\* minus exactly its 6-character suffix _fxtmp, is a file; while a download
\* requests and streams, the destination itself is never a written file.
C15_RenamedOnSuccess ==
  \A s \in Sessions :
    /\ (ss[s].pc = "returned" /\ ss[s].ret.suc)
       => /\ ~Exists(fs, TmpPath(Dest(s)))
          /\ IsFile(fs, Dest(s))
          /\ Len(TmpPath(Dest(s))) = Len(Dest(s)) + 6
          /\ RenameTarget(TmpPath(Dest(s))) = Dest(s)
    /\ ss[s].pc \in {"attempt", "streaming"} => ~IsFile(fs, Dest(s))

C15_Witness ==
  /\ ss[1].pc = "returned"
  /\ ss[1].ret.suc
  /\ ss[1].args.variant = "simple"
  /\ Len(ss[1].written) = ObjectSize
  /\ fs[Dest(1)] = File(RemoteObject)

\* C16: whenever an endpoint answers with an error code that is not a key of
\* fxerr, the operation returns (False, raw server message): no upload and no
\* download ends with the KeyError of the table lookup.
C16_UnknownCodeFallsBack ==
  /\ u_ret # Raise("KeyError")
  /\ \A s \in Sessions :
       ss[s].error_code = "unknown"
       => (ss[s].pc = "returned" /\ ss[s].ret = Return(FALSE, "error_msg"))

\* C17: when the caller supplies local_file_name, the destination is
\* local_dir_path/local_file_name; the remote name is used only when the
\* argument is omitted.
C17_SuppliedNameUsed ==
  \A s \in Sessions :
    (ss[s].pc = "returned" /\ ss[s].ret.suc)
    => IsFile(fs, Join(Dir, IF ss[s].args.local_file_name = Ellipsis
                            THEN RemoteName
                            ELSE ss[s].args.local_file_name))

\* C18: the tier lookup maps user_type 1 to (16 MiB, 10 GiB, 16384), user_type
\* 2 to (32 MiB, 20 GiB, 32768) and every other value to (4 MiB, 4 GiB, 4096),
\* and in every row the block size is 1024 times the read-unit count.
C18_TierTable ==
  u_pc # "idle"
  => LET t == TierRow(u_args.user_type)
         MiB == 1024 * 1024
     IN  /\ t = IF u_args.user_type = 1
                THEN [part_size |-> 16 * MiB, max_size_KiB |-> 10 * MiB, iter_count |-> 16384]
                ELSE IF u_args.user_type = 2
                THEN [part_size |-> 32 * MiB, max_size_KiB |-> 20 * MiB, iter_count |-> 32768]
                ELSE [part_size |-> 4 * MiB, max_size_KiB |-> 4 * MiB, iter_count |-> 4096]
         /\ t.part_size = 1024 * t.iter_count

C18_Witness ==
  /\ u_pc = "returned"
  /\ u_ret.suc
  /\ u_args.user_type = 2
  /\ TierRow(u_args.user_type).iter_count = 32768

\* C19: if precreate fails, by an ApiException or by a non-zero errno, the
\* upload returns a "pre-upload failed" failure, makes no block-upload and no
\* finalize call and leaves no scratch file.
C19_PrecreateFailure ==
  (/\ Len(calls) > 0
   /\ calls[Len(calls)].api = "xpanfileprecreate"
   /\ ~calls[Len(calls)].ok
   /\ u_ret.msg # "OtherException")
  => /\ u_pc = "returned"
     /\ u_ret = Return(FALSE, "precreate_failed")
     /\ PartCalls = <<>>
     /\ CreateCalls = <<>>
     /\ upload_file_tmp = NoFile

\* C20: if the block-upload call for some index fails, by an ApiException or
\* by a response that contains an error key, the upload returns a failure at
\* once: the failed call is the last call, so the index is not uploaded again,
\* no later index is uploaded and finalize is never called.  A failure that
\* is another exception ends the upload as abruptly, by that exception.
C20_AbortOnBlockFailure ==
  \A k \in 1..Len(calls) :
    (calls[k].api = "pcssuperfile2" /\ ~calls[k].ok)
    => /\ k = Len(calls)
       /\ CreateCalls = <<>>
       /\ u_pc \in {"returned", "raised"}
       /\ ~u_ret.suc
       /\ (u_pc = "raised" => u_ret.msg = "OtherException")

C20_Witness ==
  /\ u_pc = "returned"
  /\ ~u_ret.suc
  /\ Len(block_list_index) = 3
  /\ Len(PartCalls) = 2
  /\ PartCalls[1].ok
  /\ ~PartCalls[2].ok
  /\ CreateCalls = <<>>

\* C21: every failure of the block-upload call for index i, a raised
\* ApiException as well as a response that contains an error key, is reported
\* as (False, message) where the message is a string that names the index i.
C21_BlockFailureMessage ==
  \A k \in 1..Len(calls) :
    (/\ calls[k].api = "pcssuperfile2"
     /\ ~calls[k].ok
     /\ u_ret.msg # "OtherException")
    => /\ u_pc = "returned"
       /\ ~u_ret.suc
       /\ u_ret.type = "str"
       /\ u_ret.part_seq = calls[k].part_seq

\* C22: with overwrite not requested, if a remote file already exists at the
\* target path, the upload returns the "file already exists" failure without
\* hashing the file and without calling precreate, block-upload or finalize;
\* with overwrite requested no existence lookup is made.
C22_ExistingRemoteRefused ==
  /\ (/\ ~u_args.overwrite
      /\ u_args.remote_exists
      /\ Validate(u_args) = "ok"
      /\ u_pc \notin {"idle", "lookup"})
     => /\ u_pc = "returned"
        /\ u_ret = Return(FALSE, "exists")
        /\ ~Hashed
        /\ PrecreateCalls = <<>>
        /\ PartCalls = <<>>
        /\ CreateCalls = <<>>
  /\ u_args.overwrite => \A k \in 1..Len(calls) : calls[k].api # "xpanfilelist"

\* C25: for each index of the server-returned list, the scratch file staged
\* for the block-upload call holds exactly the tier block size, or the
\* remaining bytes of the file when fewer remain, and the scratch file no
\* longer exists when the upload is over, whether the block upload succeeded
\* or failed.
C25_ScratchFile ==
  /\ (u_pc = "blocks" /\ upload_file_tmp # NoFile)
     => /\ upload_file_tmp.kind = "file"
        /\ Len(upload_file_tmp.data) =
             Min(part_size(u_args.user_type),
                 u_args.total_size - Len(PartCalls) * part_size(u_args.user_type))
        /\ Len(upload_file_tmp.data) > 0
  /\ u_pc \in {"returned", "raised"} => upload_file_tmp = NoFile

C25_Witness ==
  /\ u_pc = "returned"
  /\ ~u_ret.suc
  /\ Len(PartCalls) = 2
  /\ Len(PartCalls[1].file) = part_size(u_args.user_type)
  /\ Len(PartCalls[2].file) = 1
  /\ upload_file_tmp = NoFile

\* C27: the bytes sent in the block-upload call tagged with index i are
\* exactly the file bytes [i*B, min((i+1)*B, S)), for every index list the
\* server may return, a reordered list or one that omits indices included.
C27_TaggedBytes ==
  \A k \in 1..Len(calls) :
    calls[k].api = "pcssuperfile2"
    => LET B == part_size(u_args.user_type)
           S == u_args.total_size
           i == calls[k].part_seq
       IN  calls[k].file = SubSeq(FileOf(S), i * B + 1, Min((i + 1) * B, S))

\* the call of session s is over
Ended(s) == ss[s].pc \in {"returned", "raised"}

C28_SizeCheckedBeforeRename ==
  \A s \in Sessions :
    (Breakpoint(s) /\ ss[s].pc = "returned" /\ ss[s].ret.suc)
    => Len(fs[Dest(s)].data) = ss[s].first_byte + ss[s].total_size

\* C29: a breakpoint download that finds the temporary file already holding
\* every byte of the remote object, and whose request the server answers,
\* reports success with the destination materialized; it does not fail on
\* the answer to Range: bytes=N- with N the size of the object.
C29_CompleteTmpFinishes ==
  \A s \in Sessions :
    (/\ Breakpoint(s)
     /\ Prior(s) = RemoteObject
     /\ Ended(s)
     /\ ss[s].status # 0)
    => /\ ss[s].pc = "returned"
       /\ ss[s].ret.suc
       /\ fs[Dest(s)] = File(RemoteObject)

\* C30: for the same temporary file and the same behaviour of requests.get
\* (an exception, an error status with a known or unknown code, a 200 or 206
\* answer), the GET of the auto-retry download called with max_retry = 1 ends
\* as the GET of the non-retry breakpoint download: same returned tuple or
\* raised exception, same files.
C30_SameOutcomeAsNonRetry ==
  \A s \in Sessions :
    (/\ ss[s].pc = "attempt"
     /\ ss[s].args.variant = "auto_retry"
     /\ ss[s].args.max_retry = 1)
    => LET sa == Sent("auto_retry", ss[s], fs)
           sb == Sent("breakpoint", ss[s], fs)
       IN  /\ sa.range = sb.range
           /\ \A e \in RequestEnv(sa.range) :
                LET oa == RequestOutcome("auto_retry", sa, fs, e)
                    ob == RequestOutcome("breakpoint", sb, fs, e)
                IN  /\ oa.rec.pc = ob.rec.pc
                    /\ oa.rec.ret = ob.rec.ret
                    /\ oa.fs = ob.fs

\* C24: the auto-retry download always terminates, after at most max_retry
\* GET requests, and issues no further request after the first attempt that
\* completes the rename: that attempt's GET is the last one.
C24_BoundedRequests ==
  /\ [](\A s \in Sessions :
          ss[s].args.variant = "auto_retry"
          => /\ GetsOf(s) <= ss[s].args.max_retry
             /\ (ss[s].pc = "returned" /\ ss[s].ret.suc) => GetsOf(s) = ss[s].i + 1)
  /\ <>(\A s \in Serial : Ended(s))

C24_Witness ==
  /\ ss[1].args.variant = "auto_retry"
  /\ ss[1].pc = "returned"
  /\ ss[1].ret.suc
  /\ ss[1].i = 1
  /\ GetsOf(1) = MaxRetry

\* C26: two breakpoint downloads of the same destination that run at once
\* share the temporary file without a lock.  The temporary file is never
\* unlinked by either, so the rename of one session fails (no such file) only
\* because the other session renamed the file first; and the state of the
\* witness is reachable: one session reports success over a destination that
\* is not the remote object (bytes written twice) although both were answered
\* in full, and the rename of the other fails.
C26_SharedTmpRace ==
  \A s \in Sessions :
    (ss[s].pc = "raised" /\ ss[s].ret = Raise("OSError"))
    => \E t \in Sessions \ {s} :
         /\ ss[t].pc = "returned"
         /\ ss[t].ret.suc
         /\ Dest(t) = Dest(s)
         /\ TmpPath(Dest(t)) = TmpPath(Dest(s))

C26_Witness ==
  /\ ss[1].pc = "returned"
  /\ ss[1].ret.suc
  /\ ss[1].status = 200
  /\ ss[1].range = NoRange
  /\ ss[1].written = RemoteObject
  /\ ss[2].pc = "raised"
  /\ ss[2].ret = Raise("OSError")
  /\ ss[2].status = 206
  /\ ss[2].written = SubSeq(RemoteObject, ss[2].first_byte + 1, ObjectSize)
  /\ Dest(1) = Dest(2)
  /\ IsFile(fs, Dest(1))
  /\ ss[1].renamed # RemoteObject
  /\ Len(ss[1].renamed) > ObjectSize
  /\ fs[Dest(1)].data = ss[1].renamed

=============================================================================
